---- MODULE Spec2Model ----
(***************************************************************************)
(* devnest: the command handlers of devnest/lib/cli.py                     *)
(* (JenkinsNodeShell.main) over a registry of hardware nodes.              *)
(*                                                                         *)
(* The handlers are translated from cli.py.  The node and registry         *)
(* methods they call (devnest.lib.node, devnest.lib.jenkins) are not part  *)
(* of the sources at hand; they are modelled from the written              *)
(* specification (spec.md, sections 3, 4 and 6) and are marked so below.   *)
(***************************************************************************)
EXTENDS Integers, Sequences, FiniteSets, TLC

VARIABLES nodes, now, last, procs

vars == <<nodes, now, last, procs>>

(***************************************************************************)
(* Bounds                                                                  *)
(***************************************************************************)
\* Number of commands issued in one behaviour; the clock advances by one
\* hour with every command.
MaxNow == 2

(***************************************************************************)
(* Values                                                                  *)
(***************************************************************************)
ONLINE == "ONLINE"
OFFLINE == "OFFLINE"
JOB_RUNNING == "JOB_RUNNING"
RESERVED == "RESERVED"
REPROVISION_PENDING == "REPROVISION_PENDING"
UNKNOWN == "UNKNOWN"

NodeStatus == {ONLINE, OFFLINE, JOB_RUNNING, RESERVED, REPROVISION_PENDING, UNKNOWN}

\* Python's None, for an absent owner, pattern, or group.
None == "None"

\* Node names are character sequences, so that a pattern is matched and
\* not looked up.
lab1 == <<"l", "a", "b", "1">>
lab2 == <<"l", "a", "b", "2">>
dev1 == <<"d", "e", "v", "1">>

\* The registry's fetch order.
NodeOrder == <<lab1, lab2, dev1>>

Names == {NodeOrder[i] : i \in 1..Len(NodeOrder)}

\* Acting identities (the configured Jenkins user). They differ by case only.
Users == {"alice", "Alice"}

\* --owner: absent, or an explicit owner.
OwnerArgs == {None, "bob"}

\* -t/--time is type=int: argparse accepts any integer. 3 is the default of
\* reserve.
DefaultTime == 3

Hours == {-1, DefaultTime}

\* The node_regex argument: a literal pattern. An absent pattern (None)
\* selects every node, as the empty pattern does; both are <<>> here.
NoRegex == <<>>

Patterns == {NoRegex, <<"l", "a", "b">>, <<"d", "e", "v">>, <<"x">>}

GroupNames == {"shared", "other"}

\* The parser's default of -g/--group: the string 'shared' with its quotes.
DefaultGroup == "'shared'"

\* -g/--group and -a/--all exclude each other and one is required: a group
\* is given, or --all is and the group is the default.
NestArgs == {[group |-> "shared", all |-> FALSE], [group |-> DefaultGroup, all |-> TRUE]}

\* Comma separated group lists, as the lists they split into.
GroupLists == {<<"other">>, <<"shared", "other">>}

\* Capability patches (json dictionaries).
Patches == {[cpu |-> "x86_64"], [gpu |-> "yes"]}

NoPatch == [k \in {} |-> ""]

NoReservation == <<>>

NoInfo == <<>>

(***************************************************************************)
(* Node and registry methods (devnest.lib.node, devnest.lib.jenkins)       *)
(***************************************************************************)
RECURSIVE IsPrefix(_, _)
IsPrefix(p, s) ==
    IF p = <<>> THEN TRUE
    ELSE IF s = <<>> THEN FALSE
    ELSE Head(p) = Head(s) /\ IsPrefix(Tail(p), Tail(s))

\* An unanchored match of a literal pattern: the pattern occurs somewhere in
\* the name.
RECURSIVE Search(_, _)
Search(p, s) ==
    IF IsPrefix(p, s) THEN TRUE
    ELSE IF s = <<>> THEN FALSE
    ELSE Search(p, Tail(s))

\* get_nodes(node_regex, group): the fetched nodes, in fetch order, whose
\* name matches the pattern and whose groups hold the group (None: all).
get_nodes(registry, node_regex, group) ==
    LET Keep(n) == /\ (node_regex = NoRegex \/ Search(node_regex, n))
                   /\ (group = None \/ group \in registry[n].groups)
    IN  SelectSeq(NodeOrder, Keep)

get_node_status(node) == node.status

HasReservation(node) == node.reservation # NoReservation

\* The owner of the node's reservation; None when it has none.
get_reservation_owner(node) ==
    IF HasReservation(node) THEN node.reservation[1].owner ELSE None

\* reserve: the reservation is recorded for the owner (the acting identity
\* when no owner is given) until now + hours. The node becomes RESERVED,
\* except that a node running a job keeps that status until the job ends.
reserve(node, hours, owner, identity, t) ==
    [node EXCEPT
        !.reservation = <<[owner      |-> IF owner = None THEN identity ELSE owner,
                           created_at |-> t,
                           expires_at |-> t + hours]>>,
        !.status = IF node.status = JOB_RUNNING THEN JOB_RUNNING ELSE RESERVED]

\* The reservation info reserve returns.
reserve_info(name, node) ==
    <<[owner      |-> node.reservation[1].owner,
       node       |-> name,
       expires_at |-> node.reservation[1].expires_at]>>

\* extend_reservation: the error it ends in, "none" when it succeeds.
extend_error(node, force, identity) ==
    IF get_reservation_owner(node) # identity /\ ~force THEN "Ownership"
    ELSE IF ~HasReservation(node) THEN "NotReserved"
    ELSE "none"

extend_reservation(node, hours) ==
    [node EXCEPT !.reservation[1].expires_at = @ + hours]

\* The statuses the registry may give a node whose reservation is cleared
\* without bringing it online.
IdleStatus == {ONLINE, OFFLINE}

\* A slip: the reservation is dropped and the status is left as it was.
clear_reservation_keeps_status(node, bring_online, idle) ==
    [node EXCEPT !.reservation = NoReservation]

\* clear_reservation: the reservation is destroyed; the node is brought
\* online when asked, and is otherwise left to the registry (idle: the
\* registry's choice for a node that was RESERVED).
clear_reservation(node, bring_online, idle) ==
    [node EXCEPT
        !.reservation = NoReservation,
        !.status = IF bring_online THEN ONLINE
                   ELSE IF node.status = RESERVED THEN idle
                   ELSE node.status]

set_reprovision_pending(node) ==
    [node EXCEPT !.status = REPROVISION_PENDING]

Range(s) == {s[i] : i \in 1..Len(s)}

update_with_groups(node, groups) == [node EXCEPT !.groups = Range(groups)]

add_groups(node, groups) == [node EXCEPT !.groups = @ \cup Range(groups)]

remove_groups(node, groups) == [node EXCEPT !.groups = @ \ Range(groups)]

clear_all_groups(node) == [node EXCEPT !.groups = {}]

\* update_capabilities: the patch is merged into the node's capabilities.
update_capabilities(node, patch) ==
    [node EXCEPT !.capabilities =
        [k \in DOMAIN node.capabilities \cup DOMAIN patch |->
            IF k \in DOMAIN patch THEN patch[k] ELSE node.capabilities[k]]]

(***************************************************************************)
(* State                                                                   *)
(***************************************************************************)
Reservation(owner, created_at, expires_at) ==
    <<[owner |-> owner, created_at |-> created_at, expires_at |-> expires_at]>>

Node(status, reservation, groups, capabilities) ==
    [status |-> status, reservation |-> reservation,
     groups |-> groups, capabilities |-> capabilities]

\* The statuses dev1 may show before the first command. RESERVED and
\* REPROVISION_PENDING are reached by commands.
InitialStatus == {ONLINE, OFFLINE, JOB_RUNNING, UNKNOWN}

\* The record of the last command: its arguments as parsed, the acting
\* identity, the nodes selected, the status read from the target, and the
\* outcome (the error raised, the reservation info returned).
NoCmd ==
    [action |-> "none", node_regex |-> NoRegex, group |-> None, all |-> FALSE,
     time |-> 0, owner |-> None, force |-> FALSE, online |-> FALSE,
     pending |-> FALSE, op |-> "none", groups |-> <<>>, patch |-> NoPatch,
     identity |-> None, jenkins_nodes |-> <<>>, status |-> None,
     err |-> "none", info |-> NoInfo, all_groups |-> {}, labels_before |-> {},
     state |-> <<>>, format |-> "table", column |-> <<>>, rows |-> <<>>]

\* Spec runs its commands one at a time: no command is in progress
\* between two of its steps.
NoProcs == <<>>

Init ==
    /\ \E s \in InitialStatus :
          nodes = [n \in Names |->
                     IF n = dev1 THEN Node(s, NoReservation, {"shared"}, NoPatch)
                     ELSE IF n = lab1
                          THEN Node(ONLINE, NoReservation, {"shared"},
                                    [cpu |-> "arm", ram |-> "8"])
                     ELSE Node(ONLINE, NoReservation, {"other"}, [cpu |-> "arm"])]
    /\ now = 0
    /\ last = NoCmd
    /\ procs = NoProcs

\* A command runs at the current hour; the next one runs an hour later.
Ran(cmd) ==
    /\ now' = now + 1
    /\ last' = cmd
    /\ UNCHANGED procs

(***************************************************************************)
(* JenkinsNodeShell.main                                                   *)
(***************************************************************************)
\* A slip: only an empty selection is refused.
WrongCountEmptyOnly(jenkins_nodes) == Len(jenkins_nodes) = 0

\* if len(jenkins_nodes) != 1: raise CommandError("Found %s nodes ...")
WrongCount(jenkins_nodes) == Len(jenkins_nodes) # 1

\* A slip: the nest shared is passed where no nest should be.
OnlyShared == "shared"

\* get_nodes(parser_args.node_regex, group=None): extend, release, group
\* and capability select in every nest.
AllNests == None

\* A slip: --all does not drop the nest.
NestOfIgnoresAll(group, all) == group

\* group = parser_args.group; if parser_args.all: group = None
NestOf(group, all) == IF all THEN None ELSE group

\* A slip: the check that the node is online is missing.
ReserveErrorJobOnly(status, force) ==
    IF status = JOB_RUNNING /\ ~force THEN "Conflict" ELSE "none"

\* A slip: --force does not lift the check for a running job.
ReserveErrorForceIgnored(status, force) ==
    IF status = JOB_RUNNING THEN "Conflict"
    ELSE IF status # ONLINE /\ ~force THEN "Conflict"
    ELSE "none"

\* The status checks of reserve: the error raised, "none" when they pass.
ReserveError(status, force) ==
    IF status = JOB_RUNNING /\ ~force THEN "Conflict"
    ELSE IF status # ONLINE /\ ~force THEN "Conflict"
    ELSE "none"

\* A slip: --owner is not passed on.
ReserveCallNoOwner(node, time, owner, identity) ==
    reserve(node, time, None, identity, now)

\* reserve_node.reserve(reservation_time, owner=reservation_owner, ...)
ReserveCall(node, time, owner, identity) ==
    reserve(node, time, owner, identity, now)

Reserve ==
    \E node_regex \in Patterns, nest \in NestArgs,
       time \in Hours, owner \in OwnerArgs, force \in BOOLEAN, identity \in Users :
        LET jenkins_nodes == get_nodes(nodes, node_regex, NestOf(nest.group, nest.all))
            cmd == [NoCmd EXCEPT !.action = "reserve", !.node_regex = node_regex,
                        !.group = nest.group, !.all = nest.all, !.time = time,
                        !.owner = owner, !.force = force, !.identity = identity,
                        !.jenkins_nodes = jenkins_nodes]
        IN  /\ now < MaxNow
            /\ IF WrongCount(jenkins_nodes)
               THEN /\ Ran([cmd EXCEPT !.err = "Cardinality"])
                    /\ UNCHANGED nodes
               ELSE LET name == jenkins_nodes[1]
                        reserve_node == nodes[name]
                        status == get_node_status(reserve_node)
                        err == ReserveError(status, force)
                        reserved == ReserveCall(reserve_node, time, owner, identity)
                    IN  IF err # "none"
                        THEN /\ Ran([cmd EXCEPT !.status = status, !.err = err])
                             /\ UNCHANGED nodes
                        ELSE /\ nodes' = [nodes EXCEPT ![name] = reserved]
                             /\ Ran([cmd EXCEPT !.status = status,
                                        !.info = reserve_info(name, reserved)])

\* A slip: the force flag is passed as set.
ExtendErrorForced(node, force, identity) == extend_error(node, TRUE, identity)

\* node.extend_reservation(parser_args.time, parser_args.force)
ExtendError(node, force, identity) == extend_error(node, force, identity)

Extend ==
    \E node_regex \in Patterns, time \in Hours, force \in BOOLEAN, identity \in Users :
        LET jenkins_nodes == get_nodes(nodes, node_regex, AllNests)
            cmd == [NoCmd EXCEPT !.action = "extend", !.node_regex = node_regex,
                        !.time = time, !.force = force, !.identity = identity,
                        !.jenkins_nodes = jenkins_nodes]
        IN  /\ now < MaxNow
            /\ IF WrongCount(jenkins_nodes)
               THEN /\ Ran([cmd EXCEPT !.err = "Cardinality"])
                    /\ UNCHANGED nodes
               ELSE LET name == jenkins_nodes[1]
                        node == nodes[name]
                        err == ExtendError(node, force, identity)
                    IN  IF err # "none"
                        THEN /\ Ran([cmd EXCEPT !.err = err])
                             /\ UNCHANGED nodes
                        ELSE /\ nodes' = [nodes EXCEPT ![name] = extend_reservation(node, time)]
                             /\ Ran(cmd)

Lower(user) == IF user = "Alice" THEN "alice" ELSE user

\* A slip: --force does not lift the ownership check.
ReleaseErrorForceIgnored(reserve_user, jenkins_user, force) ==
    IF reserve_user # jenkins_user THEN "Ownership" ELSE "none"

\* A slip: the owner is compared without regard to case.
ReleaseErrorAnyCase(reserve_user, jenkins_user, force) ==
    IF Lower(reserve_user) # Lower(jenkins_user) /\ ~force THEN "Ownership" ELSE "none"

\* A slip: the ownership check is missing.
ReleaseErrorNone(reserve_user, jenkins_user, force) == "none"

\* if reserve_user != jenkins_user and not parser_args.force: raise
ReleaseError(reserve_user, jenkins_user, force) ==
    IF reserve_user # jenkins_user /\ ~force THEN "Ownership" ELSE "none"

\* A slip: --online is not passed on.
ClearCallNotOnline(node, online, idle) == clear_reservation(node, FALSE, idle)

\* reserve_node.clear_reservation(bring_online=parser_args.online)
ClearCall(node, online, idle) == clear_reservation(node, online, idle)

\* The branch release takes: --pending is looked at first and skips the
\* ownership check; otherwise the check refuses or lets the clear through.
ReleasePathOwnerFirst(pending, err) ==
    IF err # "none" THEN "refuse" ELSE IF pending THEN "pending" ELSE "clear"

ReleasePath(pending, err) ==
    IF pending THEN "pending" ELSE IF err # "none" THEN "refuse" ELSE "clear"

Release ==
    \E node_regex \in Patterns, force \in BOOLEAN, online \in BOOLEAN,
       pending \in BOOLEAN, identity \in Users :
        LET jenkins_nodes == get_nodes(nodes, node_regex, AllNests)
            cmd == [NoCmd EXCEPT !.action = "release", !.node_regex = node_regex,
                        !.force = force, !.online = online, !.pending = pending,
                        !.identity = identity, !.jenkins_nodes = jenkins_nodes]
        IN  /\ now < MaxNow
            /\ IF WrongCount(jenkins_nodes)
               THEN /\ Ran([cmd EXCEPT !.err = "Cardinality"])
                    /\ UNCHANGED nodes
               ELSE LET name == jenkins_nodes[1]
                        reserve_node == nodes[name]
                        reserve_user == get_reservation_owner(reserve_node)
                        err == ReleaseError(reserve_user, identity, force)
                        path == ReleasePath(pending, err)
                    IN  IF path = "pending"
                        THEN /\ nodes' = [nodes EXCEPT
                                            ![name] = set_reprovision_pending(reserve_node)]
                             /\ Ran(cmd)
                        ELSE IF path = "refuse"
                        THEN /\ Ran([cmd EXCEPT !.err = err])
                             /\ UNCHANGED nodes
                        ELSE /\ \E idle \in IdleStatus :
                                    nodes' = [nodes EXCEPT
                                       ![name] = ClearCall(reserve_node, online, idle)]
                             /\ Ran(cmd)

\* The group command: get, clear, or set, add or remove with a group list.
GroupArgs ==
    {[op |-> o, groups |-> <<>>] : o \in {"get", "clear"}}
        \cup {[op |-> o, groups |-> g] : o \in {"set", "add", "remove"}, g \in GroupLists}

\* A slip: add replaces the groups, as set does.
GroupCallAddReplaces(node, op, groups) ==
    IF op = "clear" THEN clear_all_groups(node)
    ELSE IF op \in {"set", "add"} THEN update_with_groups(node, groups)
    ELSE remove_groups(node, groups)

\* The node after the group operation: clear, set, add or remove.
GroupCall(node, op, groups) ==
    IF op = "clear" THEN clear_all_groups(node)
    ELSE IF op = "set" THEN update_with_groups(node, groups)
    ELSE IF op = "add" THEN add_groups(node, groups)
    ELSE remove_groups(node, groups)

\* A slip: only the first matched node is asked for its labels.
AllGroupsFirstOnly(registry, jenkins_nodes) ==
    IF jenkins_nodes = <<>> THEN {} ELSE registry[Head(jenkins_nodes)].groups

\* all_groups += node.node_details.get_node_labels(), node after node; what
\* is printed is set(all_groups).
RECURSIVE AllGroups(_, _)
AllGroups(registry, jenkins_nodes) ==
    IF jenkins_nodes = <<>> THEN {}
    ELSE registry[Head(jenkins_nodes)].groups
            \cup AllGroups(registry, Tail(jenkins_nodes))

Group ==
    \E node_regex \in Patterns, arg \in GroupArgs :
        LET jenkins_nodes == get_nodes(nodes, node_regex, AllNests)
            op == arg.op
            groups == arg.groups
            cmd == [NoCmd EXCEPT !.action = "group", !.node_regex = node_regex,
                        !.op = op, !.groups = groups,
                        !.jenkins_nodes = jenkins_nodes]
        IN  /\ now < MaxNow
            /\ IF op = "get"
               THEN /\ Ran([cmd EXCEPT !.all_groups = AllGroups(nodes, jenkins_nodes)])
                    /\ UNCHANGED nodes
               ELSE IF WrongCount(jenkins_nodes)
               THEN /\ Ran([cmd EXCEPT !.err = "Cardinality"])
                    /\ UNCHANGED nodes
               ELSE LET name == jenkins_nodes[1]
                    IN  /\ nodes' = [nodes EXCEPT
                                       ![name] = GroupCall(nodes[name], op, groups)]
                        /\ Ran([cmd EXCEPT !.labels_before = nodes[name].groups])

\* The nodes whose update completed: every matched node when no call
\* failed (failed = 0), else those before the failed-th node of the loop.
CapabilityTargetsFirstOnly(jenkins_nodes, failed) ==
    IF failed = 0 /\ jenkins_nodes # <<>> THEN {jenkins_nodes[1]} ELSE {}

CapabilityTargets(jenkins_nodes, failed) ==
    IF failed = 0 THEN Range(jenkins_nodes)
    ELSE {jenkins_nodes[i] : i \in 1..(failed - 1)}

\* for node in jenkins_nodes: node.update_capabilities(parser_args.set)
\* Each update is one registry call, and a registry call can fail: the
\* exception leaves the loop and main() reports it. The other handlers make
\* a single mutating call, which a failure leaves without effect.
Capabilities ==
    \E node_regex \in Patterns, patch \in Patches :
        LET jenkins_nodes == get_nodes(nodes, node_regex, AllNests)
            cmd == [NoCmd EXCEPT !.action = "capability", !.node_regex = node_regex,
                        !.patch = patch, !.jenkins_nodes = jenkins_nodes]
        IN  /\ now < MaxNow
            /\ \E failed \in 0..Len(jenkins_nodes) :
                  /\ nodes' = [n \in Names |->
                                  IF n \in CapabilityTargets(jenkins_nodes, failed)
                                  THEN update_capabilities(nodes[n], patch)
                                  ELSE nodes[n]]
                  /\ Ran([cmd EXCEPT !.err = IF failed = 0 THEN "none"
                                                           ELSE "Registry"])

(***************************************************************************)
(* The list command                                                        *)
(***************************************************************************)
LIST_FORMATS == {"csv", "table"}

\* The names class Columns defines, as get_columns looks them up.
ColumnKeys ==
    {"HOST", "STATE", "RAM", "CPU", "RESERVED", "UNTIL", "GROUPS", "CAPABILITIES"}

\* Columns.DEFAULT, split at the commas.
DefaultColumns == <<"host", "state", "ram", "cpu", "reserved", "until">>

\* column.upper(), on the column names used here.
Upper(column) ==
    CASE column = "host" -> "HOST"
      [] column = "state" -> "STATE"
      [] column = "ram" -> "RAM"
      [] column = "cpu" -> "CPU"
      [] column = "reserved" -> "RESERVED"
      [] column = "until" -> "UNTIL"
      [] column = "owner" -> "OWNER"
      [] OTHER -> column

\* Columns.get_columns raises on the first name it does not know.
UnknownColumn(columns) ==
    \E i \in 1..Len(columns) : Upper(columns[i]) \notin ColumnKeys

\* get_node_status_str: the status as list shows it.
get_node_status_str(node) ==
    CASE node.status = ONLINE -> <<"o", "n", "l", "i", "n", "e">>
      [] node.status = OFFLINE -> <<"o", "f", "f", "l", "i", "n", "e">>
      [] node.status = JOB_RUNNING -> <<"j", "o", "b", " ", "r", "u", "n", "n", "i", "n", "g">>
      [] node.status = RESERVED -> <<"r", "e", "s", "e", "r", "v", "e", "d">>
      [] node.status = REPROVISION_PENDING ->
            <<"r", "e", "p", "r", "o", "v", "i", "s", "i", "o", "n", " ",
              "p", "e", "n", "d", "i", "n", "g">>
      [] OTHER -> <<"u", "n", "k", "n", "o", "w", "n">>

\* parser_args.state.lower(), on the letters used here.
LowerChar(ch) ==
    CASE ch = "O" -> "o"
      [] ch = "N" -> "n"
      [] ch = "L" -> "l"
      [] OTHER -> ch

StateLower(state) == [i \in 1..Len(state) |-> LowerChar(state[i])]

\* --state is optional: an absent one filters nothing.
NoState == <<>>

\* The --state, --format and --column values list is run with.
ListArgs ==
    {[state |-> NoState, format |-> "table", column |-> DefaultColumns],
     [state |-> <<"O", "N", "L">>, format |-> "table", column |-> DefaultColumns],
     [state |-> <<"l", "i", "n", "e">>, format |-> "json", column |-> <<"host", "owner">>],
     [state |-> NoState, format |-> "csv", column |-> <<"host", "owner">>],
     [state |-> NoState, format |-> "xml", column |-> DefaultColumns]}

ListPatterns == Patterns \cup {<<"1">>}

ListNests == NestArgs \cup {[group |-> "other", all |-> FALSE]}

\* The branch on --format: table and csv build their columns, json does
\* not, anything else is refused.
ListError(format, column) ==
    IF format = "table" THEN IF UnknownColumn(column) THEN "Column" ELSE "none"
    ELSE IF format = "json" THEN "none"
    ELSE IF format \in LIST_FORMATS
         THEN IF UnknownColumn(column) THEN "Column" ELSE "none"
    ELSE "Format"

\* A slip: building a row takes the node's reservation away.
ListWritesRows(registry, rows) ==
    [n \in Names |-> IF n \in Range(rows)
                     THEN [registry[n] EXCEPT !.reservation = NoReservation]
                     ELSE registry[n]]

\* What list leaves in the registry: it calls get_nodes, then only getters
\* of the nodes (get_node_status_str, to_dict, Columns.to_data).
ListWrites(registry, rows) == registry

List ==
    \E node_regex \in ListPatterns, nest \in ListNests, arg \in ListArgs :
        LET jenkins_nodes == get_nodes(nodes, node_regex, NestOf(nest.group, nest.all))
            Shown(n) == Search(StateLower(arg.state), get_node_status_str(nodes[n]))
            rows == IF arg.state # NoState THEN SelectSeq(jenkins_nodes, Shown)
                    ELSE jenkins_nodes
            cmd == [NoCmd EXCEPT !.action = "list", !.node_regex = node_regex,
                        !.group = nest.group, !.all = nest.all,
                        !.state = arg.state, !.format = arg.format,
                        !.column = arg.column,
                        !.jenkins_nodes = jenkins_nodes, !.rows = rows]
        IN  /\ now < MaxNow
            /\ Ran([cmd EXCEPT !.err = ListError(arg.format, arg.column)])
            /\ nodes' = ListWrites(nodes, rows)

(***************************************************************************)
(* The registry                                                            *)
(***************************************************************************)
\* The job running on a node ends: a node reserved meanwhile becomes
\* RESERVED, any other becomes ONLINE.
JobCompletes ==
    \E n \in Names :
        /\ nodes[n].status = JOB_RUNNING
        /\ nodes' = [nodes EXCEPT ![n].status =
                        IF HasReservation(nodes[n]) THEN RESERVED ELSE ONLINE]
        /\ UNCHANGED <<now, last, procs>>

Next ==
    \/ Reserve
    \/ Extend
    \/ Release
    \/ Group
    \/ Capabilities
    \/ JobCompletes

Spec == Init /\ [][Next]_vars

(***************************************************************************)
(* Two reserve commands running at the same time                           *)
(***************************************************************************)
\* Each user runs `devnest reserve -g shared <node_regex>` without --force.
\* procs[u] is the position of u's command in the handler and what it holds:
\* the nodes it fetched and the node object it validates, as read then.
RacePatterns == {<<"d", "e", "v">>, <<"l", "a", "b">>}

NoNode == Node(UNKNOWN, NoReservation, {}, NoPatch)

RaceInit ==
    /\ \E s \in InitialStatus :
          nodes = [n \in Names |->
                     IF n = lab2 THEN Node(ONLINE, NoReservation, {"other"}, NoPatch)
                     ELSE Node(s, NoReservation, {"shared"}, NoPatch)]
    /\ now = 0
    /\ last = NoCmd
    /\ procs \in [Users -> {[pc |-> "fetch", node_regex |-> p, jenkins_nodes |-> <<>>,
                             reserve_node |-> NoNode, err |-> "none"] :
                                p \in RacePatterns}]

\* jenkins_nodes = jenkins_obj.get_nodes(...): the nodes as the registry
\* holds them at that moment.
Fetch(u) ==
    /\ procs[u].pc = "fetch"
    /\ LET jenkins_nodes == get_nodes(nodes, procs[u].node_regex,
                                      NestOf("shared", FALSE))
       IN  procs' = [procs EXCEPT
                       ![u].pc = "validate",
                       ![u].jenkins_nodes = jenkins_nodes,
                       ![u].reserve_node = IF jenkins_nodes = <<>> THEN NoNode
                                           ELSE nodes[jenkins_nodes[1]]]
    /\ UNCHANGED <<nodes, now, last>>

\* The checks of the reserve handler, on the node object fetched earlier.
Validate(u) ==
    /\ procs[u].pc = "validate"
    /\ LET err == IF WrongCount(procs[u].jenkins_nodes) THEN "Cardinality"
                  ELSE ReserveError(get_node_status(procs[u].reserve_node), FALSE)
       IN  procs' = [procs EXCEPT
                       ![u].pc = IF err = "none" THEN "reserve" ELSE "done",
                       ![u].err = err]
    /\ UNCHANGED <<nodes, now, last>>

\* reserve_node.reserve(...): the reservation is written to the registry.
Call(u) ==
    /\ procs[u].pc = "reserve"
    /\ LET name == procs[u].jenkins_nodes[1]
       IN  nodes' = [nodes EXCEPT
                       ![name] = ReserveCall(nodes[name], DefaultTime, None, u)]
    /\ procs' = [procs EXCEPT ![u].pc = "done"]
    /\ UNCHANGED <<now, last>>

RaceNext ==
    \/ \E u \in Users : Fetch(u)
    \/ \E u \in Users : Validate(u)
    \/ \E u \in Users : Call(u)
    \/ JobCompletes

SpecRace == RaceInit /\ [][RaceNext]_vars

(***************************************************************************)
(* The commands that select by nest, with the group command to move nodes  *)
(* between nests                                                           *)
(***************************************************************************)
ListNext ==
    \/ List
    \/ Reserve
    \/ Group
    \/ JobCompletes

SpecList == Init /\ [][ListNext]_vars

(***************************************************************************)
(* Properties                                                              *)
(***************************************************************************)
\* A step is a command when the clock moves; last' is then that command.
Single(cmd) == Len(cmd.jenkins_nodes) = 1

Target(cmd) == cmd.jenkins_nodes[1]

IsRun(cmd, action) == now' # now /\ cmd.action = action

\* C1: reserve without force on a single selected node that is not ONLINE
\* fails with a conflict error and leaves every node as it was.
C1_ReserveNotOnlineConflict ==
    [][(/\ IsRun(last', "reserve")
        /\ ~last'.force
        /\ Single(last')
        /\ nodes[Target(last')].status # ONLINE)
       => (last'.err = "Conflict" /\ nodes' = nodes)]_vars

C1_Witness ==
    /\ last.action = "reserve" /\ ~last.force /\ Single(last)
    /\ last.status = REPROVISION_PENDING
    /\ last.err = "Conflict"

C3_ReleaseOwnership ==
    [][(/\ IsRun(last', "release")
        /\ ~last'.force /\ ~last'.pending
        /\ Single(last')
        /\ HasReservation(nodes[Target(last')]))
       => LET n == Target(last')
              owner == get_reservation_owner(nodes[n])
          IN  IF owner # last'.identity
              THEN /\ last'.err = "Ownership"
                   /\ nodes'[n].reservation = nodes[n].reservation
                   /\ nodes'[n].status = nodes[n].status
              ELSE last'.err # "Ownership"]_vars

C3_Witness ==
    /\ last.action = "release" /\ ~last.force /\ ~last.pending /\ Single(last)
    /\ last.identity = "alice"
    /\ last.err = "Ownership"
    /\ get_reservation_owner(nodes[Target(last)]) = "Alice"

\* C4: extend without force on a single selected node reserved by someone
\* other than the acting identity fails with an ownership error and leaves
\* expires_at; issued by the owner it succeeds and the new expiry is the
\* old one plus the hours asked for.
C4_ExtendOwnership ==
    [][(/\ IsRun(last', "extend")
        /\ ~last'.force
        /\ Single(last')
        /\ HasReservation(nodes[Target(last')]))
       => LET n == Target(last')
              old == nodes[n].reservation[1]
          IN  IF old.owner # last'.identity
              THEN /\ last'.err = "Ownership"
                   /\ nodes'[n].reservation = nodes[n].reservation
              ELSE /\ last'.err = "none"
                   /\ nodes'[n].reservation[1].expires_at
                          = old.expires_at + last'.time]_vars

C4_Witness ==
    /\ last.action = "extend" /\ ~last.force /\ Single(last)
    /\ last.err = "Ownership"
    /\ HasReservation(nodes[Target(last)])
    /\ get_reservation_owner(nodes[Target(last)]) = "bob"

\* The commands that need exactly one selected node.
NeedsOne(cmd) ==
    \/ cmd.action \in {"reserve", "extend", "release"}
    \/ cmd.action = "group" /\ cmd.op \in {"set", "add", "remove", "clear"}

\* C5: reserve, extend, release (with --pending too) and group set, add,
\* remove and clear fail with a cardinality error and change nothing when
\* the selection holds no node or more than one, with or without force.
C5_ExactlyOneNode ==
    [][(/\ now' # now
        /\ NeedsOne(last')
        /\ ~Single(last'))
       => (last'.err = "Cardinality" /\ nodes' = nodes)]_vars

C5_Witness ==
    /\ last.action = "release" /\ last.force /\ last.pending
    /\ Len(last.jenkins_nodes) = 2
    /\ last.err = "Cardinality"

\* C6: release without force and without --pending of a single selected
\* node that holds no reservation raises no error, whoever runs it, and
\* leaves the node's groups and capabilities.
C6_ReleaseUnreservedSucceeds ==
    [][(/\ IsRun(last', "release")
        /\ ~last'.force /\ ~last'.pending
        /\ Single(last')
        /\ ~HasReservation(nodes[Target(last')]))
       => LET n == Target(last')
          IN  /\ last'.err = "none"
              /\ nodes'[n].groups = nodes[n].groups
              /\ nodes'[n].capabilities = nodes[n].capabilities]_vars

\* C7: reserve without force on a single selected node that is ONLINE and
\* not reserved succeeds: the node is RESERVED for the owner given, or for
\* the acting identity when none is given, until now plus the hours asked
\* for, and the info returned names that owner, the node and the expiry.
C7_ReserveOnline ==
    [][(/\ IsRun(last', "reserve")
        /\ ~last'.force
        /\ Single(last')
        /\ nodes[Target(last')].status = ONLINE
        /\ ~HasReservation(nodes[Target(last')]))
       => LET n == Target(last')
              owner == IF last'.owner = None THEN last'.identity ELSE last'.owner
          IN  /\ last'.err = "none"
              /\ HasReservation(nodes'[n])
              /\ nodes'[n].reservation[1].owner = owner
              /\ nodes'[n].reservation[1].expires_at = now + last'.time
              /\ nodes'[n].status = RESERVED
              /\ last'.info = <<[owner |-> owner, node |-> n,
                                 expires_at |-> now + last'.time]>>]_vars

C7_Witness ==
    /\ last.action = "reserve" /\ ~last.force /\ Single(last)
    /\ last.status = ONLINE
    /\ last.owner = "bob" /\ last.identity = "Alice"
    /\ last.err = "none"
    /\ last.info # NoInfo
    /\ nodes[Target(last)].status = RESERVED
    /\ now = MaxNow

\* C8: reserve with force on a single selected node that is running a job
\* raises no conflict error and records the reservation at once; the node
\* stays JOB_RUNNING, and no command moves a JOB_RUNNING node to RESERVED:
\* only the registry does, when the job ends.
C8_ForceReserveRunningJob ==
    [][/\ (/\ IsRun(last', "reserve")
           /\ last'.force
           /\ Single(last')
           /\ nodes[Target(last')].status = JOB_RUNNING)
          => LET n == Target(last')
             IN  /\ last'.err # "Conflict"
                 /\ HasReservation(nodes'[n])
                 /\ nodes'[n].reservation[1].created_at = now
                 /\ nodes'[n].status = JOB_RUNNING
       /\ \A n \in Names :
             (nodes[n].status = JOB_RUNNING /\ nodes'[n].status = RESERVED)
                => (now' = now /\ last' = last)]_vars

C8_Witness ==
    /\ last.action = "reserve" /\ last.force /\ Single(last)
    /\ last.status = JOB_RUNNING
    /\ last.err = "none"
    /\ HasReservation(nodes[Target(last)])
    /\ nodes[Target(last)].status = JOB_RUNNING

IsRoundTrip ==
    /\ IsRun(last', "release")
    /\ ~last'.pending
    /\ Single(last')
    /\ last'.err = "none"
    /\ last.action = "reserve"
    /\ last.err = "none"
    /\ last.jenkins_nodes = last'.jenkins_nodes
    /\ last'.identity = get_reservation_owner(nodes[Target(last')])

\* C10, as claimed: reserve then release by the same owner returns the node
\* to the status it had before the reserve, with no reservation, from every
\* status and with or without --online.
C10_RoundTripRestoresStatus ==
    [][IsRoundTrip
       => LET n == Target(last')
          IN  /\ ~HasReservation(nodes'[n])
              /\ nodes'[n].status = last.status]_vars

\* C10, amended: reserve then release by the same owner leaves the node
\* with no reservation; when the node was ONLINE before the reserve and the
\* release brings it online (--online), it is ONLINE again.
C10_RoundTripOnline ==
    [][IsRoundTrip
       => LET n == Target(last')
          IN  /\ ~HasReservation(nodes'[n])
              /\ (last.status = ONLINE /\ last'.online)
                    => nodes'[n].status = last.status]_vars

C10_Witness ==
    /\ last.action = "release" /\ ~last.pending /\ ~last.force /\ last.online
    /\ Single(last)
    /\ last.err = "none"
    /\ last.identity = "alice"
    /\ nodes[Target(last)].status = ONLINE
    /\ ~HasReservation(nodes[Target(last)])

\* C11: a successful extend leaves expires_at at or above what it was, for
\* every number of hours the command accepts.
C11_ExtendNeverShortens ==
    [][(/\ IsRun(last', "extend")
        /\ Single(last')
        /\ last'.err = "none")
       => LET n == Target(last')
          IN  nodes'[n].reservation[1].expires_at
                 >= nodes[n].reservation[1].expires_at]_vars

\* C12: every reservation expires at or after the time it was created, for
\* every duration reserve and extend accept.
C12_ExpiresAfterCreated ==
    \A n \in Names :
        HasReservation(nodes[n])
           => nodes[n].reservation[1].expires_at >= nodes[n].reservation[1].created_at

\* C13: a command that ends in an error, a registry failure during a
\* multi-node capability set included, leaves every node as it was.
C13_ErrorMeansUnchanged ==
    [][(now' # now /\ last'.err # "none") => nodes' = nodes]_vars

\* The command of u has ended and reported success.
Succeeded(u) == procs[u].pc = "done" /\ procs[u].err = "none"

\* C14, as the specification states it: of two reserve commands without
\* force, run at the same time by different users on the same node, at most
\* one succeeds.
C14_AtMostOneSucceeds ==
    \A u, v \in Users :
        (/\ u # v
         /\ procs[u].jenkins_nodes = procs[v].jenkins_nodes
         /\ Succeeded(u))
           => ~Succeeded(v)

\* C14, amended: a reserve without force succeeds only if the node it
\* fetched was ONLINE and unreserved when fetched, and is refused with a
\* conflict otherwise; the node holds the reservation of a command that
\* succeeded on it.
C14_ValidatedAgainstSnapshot ==
    /\ \A u \in Users :
          Succeeded(u) => /\ procs[u].reserve_node.status = ONLINE
                          /\ ~HasReservation(procs[u].reserve_node)
    /\ \A u \in Users :
          (procs[u].pc = "done" /\ procs[u].reserve_node.status # ONLINE)
             => procs[u].err = "Conflict"
    /\ \A n \in Names :
          HasReservation(nodes[n])
             => \E u \in Users : /\ procs[u].pc = "done"
                                 /\ procs[u].jenkins_nodes = <<n>>
                                 /\ procs[u].reserve_node.status = ONLINE
                                 /\ get_reservation_owner(nodes[n]) = u

C14_Witness ==
    /\ \A u \in Users : Succeeded(u) /\ procs[u].jenkins_nodes = <<dev1>>
    /\ HasReservation(nodes[dev1])

\* C15: release --pending on a single node marks it REPROVISION_PENDING and
\* succeeds whoever owns the reservation, whoever asks and whatever --force
\* is; the reservation is not cleared.
C15_PendingSkipsOwnership ==
    [][(/\ IsRun(last', "release")
        /\ last'.pending
        /\ Single(last'))
       => LET n == Target(last')
          IN  /\ last'.err = "none"
              /\ nodes'[n].status = REPROVISION_PENDING
              /\ nodes'[n].reservation = nodes[n].reservation
              /\ \A m \in Names \ {n} : nodes'[m] = nodes[m]]_vars

C15_Witness ==
    /\ last.action = "release"
    /\ last.pending
    /\ ~last.force
    /\ Single(last)
    /\ HasReservation(nodes[Target(last)])
    /\ Lower(get_reservation_owner(nodes[Target(last)])) # Lower(last.identity)
    /\ nodes[Target(last)].status = REPROVISION_PENDING

\* C16: with --force, reserve on a single node succeeds whatever the node's
\* status and current owner, and release on a single node succeeds whoever
\* owns the reservation and whoever asks.
C16_ForceAlwaysSucceeds ==
    [][(/\ now' # now
        /\ last'.action \in {"reserve", "release"}
        /\ last'.force
        /\ Single(last'))
       => LET n == Target(last')
          IN  /\ last'.err = "none"
              /\ last'.action = "reserve"
                    => /\ HasReservation(nodes'[n])
                       /\ get_reservation_owner(nodes'[n])
                             = IF last'.owner = None THEN last'.identity
                               ELSE last'.owner
              /\ (last'.action = "release" /\ ~last'.pending)
                    => ~HasReservation(nodes'[n])]_vars

\* A forced reserve took over a node that was RESERVED.
C16_Witness ==
    /\ last.action = "reserve"
    /\ last.force
    /\ last.err = "none"
    /\ last.status = RESERVED
    /\ last.owner = None
    /\ last.identity = "Alice"
    /\ get_reservation_owner(nodes[Target(last)]) = "Alice"

\* A successful group remove that follows a successful group add of the
\* same groups on the same single node.
IsAddThenRemove ==
    /\ last.action = "group" /\ last.op = "add" /\ last.err = "none"
    /\ IsRun(last', "group") /\ last'.op = "remove" /\ last'.err = "none"
    /\ last'.groups = last.groups
    /\ last'.jenkins_nodes = last.jenkins_nodes

\* C17, as the specification states it: group add G followed by group
\* remove G leaves the node's groups exactly as they were before the add.
C17_AddRemoveRestores ==
    [][IsAddThenRemove
         => nodes'[Target(last')].groups = last.labels_before]_vars

\* C17, amended: group add G followed by group remove G leaves the groups
\* the node had before the add minus G; that is the initial set exactly
\* when no group of G was in it.
C17_AddRemoveLeavesDifference ==
    [][IsAddThenRemove
         => LET n == Target(last')
                G == Range(last'.groups)
            IN  /\ nodes'[n].groups = last.labels_before \ G
                /\ (last.labels_before \cap G = {})
                      => nodes'[n].groups = last.labels_before
                /\ \A m \in Names \ {n} : nodes'[m] = nodes[m]]_vars

C17_Witness ==
    /\ last.action = "group"
    /\ last.op = "remove"
    /\ last.groups = <<"shared", "other">>
    /\ last.labels_before = {"shared", "other"}
    /\ Single(last)
    /\ Target(last) = dev1
    /\ nodes[dev1].groups = {}
    /\ now = 2

\* C18: capability set applies the patch to every matched node, however
\* many match, and never fails on the number of nodes; on a patched node
\* the patched keys take the patch's values and every other key keeps its
\* value; a node that is not matched is unchanged.
C18_CapabilitiesPatchEveryMatch ==
    [][IsRun(last', "capability")
         => /\ last'.err # "Cardinality"
            /\ last'.err = "none"
                 => \A n \in Names :
                       IF n \in Range(last'.jenkins_nodes)
                       THEN LET old == nodes[n].capabilities
                                new == nodes'[n].capabilities
                                patch == last'.patch
                            IN  /\ DOMAIN new = DOMAIN old \cup DOMAIN patch
                                /\ \A k \in DOMAIN patch : new[k] = patch[k]
                                /\ \A k \in DOMAIN old \ DOMAIN patch :
                                      new[k] = old[k]
                                /\ [nodes'[n] EXCEPT !.capabilities = old] = nodes[n]
                       ELSE nodes'[n] = nodes[n]]_vars

\* A patch of cpu reached lab1 and lab2 in one command: both show the new
\* cpu, lab1 keeps its ram, and dev1 has no capability.
C18_Witness ==
    /\ last.action = "capability"
    /\ last.err = "none"
    /\ last.jenkins_nodes = <<lab1, lab2>>
    /\ last.patch = [cpu |-> "x86_64"]
    /\ nodes[lab1].capabilities = [cpu |-> "x86_64", ram |-> "8"]
    /\ nodes[lab2].capabilities = [cpu |-> "x86_64"]
    /\ nodes[dev1].capabilities = NoPatch

\* C19: group get reports the union of the groups of all matched nodes,
\* however many match (none: the empty set, without error), and changes no
\* node.
C19_GroupGetUnion ==
    [][(IsRun(last', "group") /\ last'.op = "get")
         => /\ last'.err = "none"
            /\ \A g \in GroupNames :
                  g \in last'.all_groups
                     <=> \E n \in Range(last'.jenkins_nodes) : g \in nodes[n].groups
            /\ last'.all_groups \subseteq GroupNames
            /\ nodes' = nodes]_vars

\* group get over lab1, lab2 and dev1 reported both groups.
C19_Witness ==
    /\ last.action = "group"
    /\ last.op = "get"
    /\ last.err = "none"
    /\ Len(last.jenkins_nodes) = 3
    /\ last.all_groups = {"shared", "other"}

\* The pattern occurs somewhere in the name; no pattern matches every name.
Matches(node_regex, n) ==
    \/ node_regex = NoRegex
    \/ \E i \in 1..Len(n) :
          /\ i + Len(node_regex) - 1 <= Len(n)
          /\ SubSeq(n, i, i + Len(node_regex) - 1) = node_regex

\* The nodes a command with this pattern and nest is to work on.
Wanted(cmd) ==
    {n \in Names : /\ Matches(cmd.node_regex, n)
                   /\ (cmd.all \/ cmd.group \in nodes[n].groups)}

\* C20: for list and reserve the candidates are exactly the nodes whose
\* name matches the pattern (every node when there is none) and whose
\* groups hold the nest asked for; with --all the nest is not looked at,
\* whatever the group argument holds; no name comes twice; and there is no
\* candidate exactly when no node passes both tests.
C20_CandidateSet ==
    [][(now' # now /\ last'.action \in {"list", "reserve"})
         => /\ Range(last'.jenkins_nodes) = Wanted(last')
            /\ Len(last'.jenkins_nodes) = Cardinality(Wanted(last'))
            /\ last'.jenkins_nodes = <<>> <=> Wanted(last') = {}]_vars

\* list --all with the pattern lab found lab1 of nest shared and lab2 of
\* nest other, the group argument being the default one.
C20_Witness ==
    /\ last.action = "list"
    /\ last.all
    /\ last.group = DefaultGroup
    /\ last.node_regex = <<"l", "a", "b">>
    /\ last.jenkins_nodes = <<lab1, lab2>>
    /\ nodes[lab1].groups = {"shared"}
    /\ nodes[lab2].groups = {"other"}

\* C21: extend, release, group and capability select in every nest: their
\* candidates are the nodes whose name matches the pattern, whatever the
\* groups of the node, so a node no nest holds is still a candidate.
C21_SelectAcrossNests ==
    [][(now' # now
          /\ last'.action \in {"extend", "release", "group", "capability"})
         => /\ Range(last'.jenkins_nodes)
                  = {n \in Names : Matches(last'.node_regex, n)}
            /\ Len(last'.jenkins_nodes)
                  = Cardinality({n \in Names : Matches(last'.node_regex, n)})]_vars

\* dev1 had lost all its groups, so that no nest of list or reserve holds
\* it, and a group add still found it and gave it groups.
C21_Witness ==
    /\ last.action = "group"
    /\ last.op = "add"
    /\ last.err = "none"
    /\ last.jenkins_nodes = <<dev1>>
    /\ last.labels_before = {}
    /\ nodes[dev1].groups # {}

\* C22: a list command leaves the status, reservation, groups and
\* capabilities of every node as they were, for every pattern, nest, state
\* filter, column list and format, a refused format included.
C22_ListChangesNothing ==
    [][IsRun(last', "list")
         => \A n \in Names :
               /\ nodes'[n].status = nodes[n].status
               /\ nodes'[n].reservation = nodes[n].reservation
               /\ nodes'[n].groups = nodes[n].groups
               /\ nodes'[n].capabilities = nodes[n].capabilities]_vars

\* A list of a format that is refused ran while dev1 was reserved, found
\* dev1, and the reservation is still there.
C22_Witness ==
    /\ last.action = "list"
    /\ last.format = "xml"
    /\ last.err = "Format"
    /\ dev1 \in Range(last.rows)
    /\ HasReservation(nodes[dev1])
    /\ nodes[dev1].status = RESERVED

====
